---- MODULE Spec2Model ----
(***************************************************************************)
(* The application-state container of frontend/src/App.jsx (AppProvider)   *)
(* and the handlers that drive it.  The store is the pair                   *)
(* (state, currentPage) of the two useState cells of AppProvider; every     *)
(* operation of the context value is one action.  React runs each handler   *)
(* to completion and applies its functional updaters in order, so a handler *)
(* is one atomic step.                                                      *)
(*                                                                         *)
(* Spec calls the store's operations with any arguments; SpecUI runs only   *)
(* the handlers of the page on screen, with the text typed into its fields; *)
(* SpecAtLimits stores one test result with readings at the dashboard's     *)
(* class limits.                                                            *)
(***************************************************************************)
EXTENDS Integers, Sequences, FiniteSets, TLC

VARIABLES
  state,        \* AppProvider: const [state, setState] = useState(initialState)
  currentPage,  \* AppProvider: const [currentPage, setCurrentPage] = useState('login')
  activity,     \* ActivityPage: const [activity, setActivity] = useState(state.todayActivity)
  trace         \* history: the entry points run so far, each with its arguments

vars == <<state, currentPage, activity, trace>>

----------------------------------------------------------------------------
(* Bounds of the model *)

\* entry points run in one behaviour
MaxSteps == 2
\* clicks handled in one behaviour of the user interface
MaxClicks == 5
\* last instant at which the clock is read, in ticks after 2026-01-05T00:00Z
MaxNow == 2
\* clock ticks in one UTC calendar day
TicksPerDay == 2

----------------------------------------------------------------------------
(* Values *)

\* a missing property or array element
undefined == [undefined |-> TRUE]

\* the calendar date of the literal '2026-01-05', as a day number
InitialDate == 0

\* new Date().toISOString().split('T')[0] at instant t: the UTC calendar date;
\* the time of day after the 'T' is dropped
ISODate(t) == InitialDate + (t \div TicksPerDay)

\* new Date().getDay() at instant t; 2026-01-05 is a Monday (1)
getDay(t) == (1 + ISODate(t)) % 7

\* { ...a, ...b }: object spread, the keys of b override those of a
Merge(a, b) ==
  [k \in (DOMAIN a) \cup (DOMAIN b) |-> IF k \in DOMAIN b THEN b[k] ELSE a[k]]

\* obj[key]
Get(obj, key) == IF key \in DOMAIN obj THEN obj[key] ELSE undefined

\* arrays are counted from 0: whether arr[i] is an element, and the element
HasIndex(arr, i) == i + 1 \in DOMAIN arr
At(arr, i) == arr[i + 1]

dietPlan0 ==
  [ sunday    |-> [ day       |-> "Light breakfast with whole grains, seasonal fruits",
                    afternoon |-> "Balanced lunch with vegetables, lean protein",
                    night     |-> "Light dinner before 8 PM, avoid heavy carbs",
                    lifestyle |-> "Stay hydrated, light activity" ],
    monday    |-> [ day       |-> "Oatmeal with fruits and nuts",
                    afternoon |-> "Grilled chicken salad with veggies",
                    night     |-> "Fish with steamed vegetables",
                    lifestyle |-> "Maintain consistent meal timings" ],
    tuesday   |-> [ day       |-> "Whole grain toast with avocado",
                    afternoon |-> "Lentil soup with brown rice",
                    night     |-> "Tofu stir-fry with mixed greens",
                    lifestyle |-> "Monitor blood sugar levels" ],
    wednesday |-> [ day       |-> "Greek yogurt with berries",
                    afternoon |-> "Turkey wrap with lettuce and tomato",
                    night     |-> "Baked salmon with quinoa",
                    lifestyle |-> "Engage in light exercise" ],
    thursday  |-> [ day       |-> "Smoothie with spinach and banana",
                    afternoon |-> "Chickpea curry with whole grains",
                    night     |-> "Grilled vegetables with lean protein",
                    lifestyle |-> "Stay hydrated throughout the day" ],
    friday    |-> [ day       |-> "Eggs with whole grain toast",
                    afternoon |-> "Vegetable stir-fry with tofu",
                    night     |-> "Light soup and salad",
                    lifestyle |-> "Avoid heavy carbs in evening" ],
    saturday  |-> [ day       |-> "Fruit salad with yogurt",
                    afternoon |-> "Quinoa bowl with veggies",
                    night     |-> "Herbal tea and light snacks",
                    lifestyle |-> "Rest and recover" ] ]

\* initialState, with the value of new Date().getDay() at the program's start
initialState(weekday) ==
  [ user |-> [ username        |-> "john.doe",
               age             |-> 45,
               condition       |-> "both",
               region          |-> "United States",
               isAuthenticated |-> FALSE ],
    lastTestResult |-> [ fastingSugar  |-> 0,
                         postMealSugar |-> 0,
                         date          |-> InitialDate ],
    selectedDay    |-> weekday,
    dietPlan       |-> dietPlan0,
    todayActivity  |-> [ day       |-> [ food |-> FALSE, medicine |-> FALSE, exercise |-> FALSE ],
                         afternoon |-> [ food |-> FALSE, medicine |-> FALSE ],
                         night     |-> [ food |-> FALSE, medicine |-> FALSE ] ],
    medicationPlan |-> [ day |-> 1, afternoon |-> 0, night |-> 1 ] ]

----------------------------------------------------------------------------
(* Numbers and the text of input fields *)

\* NaN.  Numbers are integers here, and NaN is one integer set apart for it,
\* below every number a form of this program can be made to produce
NaN == -1000000

\* a < b on numbers: false as soon as one side is NaN
LessThan(a, b) == a # NaN /\ b # NaN /\ a < b

\* the text of a field is the sequence of its characters
Digits == <<"0", "1", "2", "3", "4", "5", "6", "7", "8", "9">>
IsDigit(c) == \E d \in 0..9 : Digits[d + 1] = c
DigitValue(c) == CHOOSE d \in 0..9 : Digits[d + 1] = c

\* the decimal numeral of a natural number
RECURSIVE Numeral(_)
Numeral(n) ==
  IF n < 10 THEN <<Digits[n + 1]>>
  ELSE Append(Numeral(n \div 10), Digits[(n % 10) + 1])

\* String(n): what an input shows for a number put in its value
String(n) ==
  IF n = NaN THEN <<"N", "a", "N">>
  ELSE IF n < 0 THEN <<"-">> \o Numeral(-n)
  ELSE Numeral(n)

\* the longest run of digits a text starts with
RECURSIVE LeadingDigits(_)
LeadingDigits(text) ==
  IF text = <<>> \/ ~IsDigit(Head(text)) THEN <<>>
  ELSE <<Head(text)>> \o LeadingDigits(Tail(text))

\* the number a run of digits denotes
RECURSIVE DigitsValue(_)
DigitsValue(ds) ==
  IF ds = <<>> THEN 0
  ELSE 10 * DigitsValue(SubSeq(ds, 1, Len(ds) - 1)) + DigitValue(ds[Len(ds)])

\* parseInt(text): an optional sign, then the digits the rest starts with;
\* NaN when there is no digit there (the empty text, a letter, a lone sign)
parseInt(text) ==
  LET signed == text # <<>> /\ Head(text) \in {"-", "+"}
      ds     == LeadingDigits(IF signed THEN Tail(text) ELSE text)
  IN  IF ds = <<>> THEN NaN
      ELSE IF signed /\ Head(text) = "-" THEN -DigitsValue(ds)
      ELSE DigitsValue(ds)

\* parseFloat(text), for texts with no fraction and no exponent part, where it
\* reads what parseInt reads
parseFloat(text) == parseInt(text)

----------------------------------------------------------------------------
(* Inputs the entry points are called with *)

\* the instants at which the clock is read
Instants == 0..MaxNow

\* login: text of the two fields
Usernames == {"", "alice", "bob"}
Passwords == {"", "x"}

\* updateSettings: partial records over username, age, condition, region
SettingsKeys == {"username", "age", "condition", "region"}
SettingsUpdates ==
  UNION { { [k \in K |-> CASE k = "username"  -> "carol"
                           [] k = "age"       -> a
                           [] k = "condition" -> "diabetes"
                           [] k = "region"    -> "India"] : a \in {30, 61} }
          : K \in SUBSET SettingsKeys }

\* updateTestResult: sugar readings in mg/dL
FastingValues == {95, 110}
PostMealValues == {130}

\* updateTodayActivity: slot, flag name, value
TimeSlots == {"day", "afternoon", "night"}
FlagNames == {"food", "medicine", "exercise"}

\* updateMedicationPlan: a tablet count for each slot
MedicationPlans ==
  { [day |-> 2, afternoon |-> 1, night |-> 0],
    [day |-> 0, afternoon |-> 0, night |-> 3] }

\* selectDay: the seven buttons' indices, and one index on each side of them
DayIndices == -1..7

\* setCurrentPage: the seven page identifiers, and one the page table lacks
PageIdentifiers ==
  {"login", "dashboard", "settings", "activity", "diet-plan", "test-upload",
   "medication", "profile"}

----------------------------------------------------------------------------
(* App: which page is rendered *)

\* the keys of the pages table
pages == {"dashboard", "settings", "activity", "diet-plan", "test-upload", "medication"}

\* faulty variant: the page table is looked up before the session is
visiblePageOf_tableFirst(s, page) ==
  IF page \in pages THEN page
  ELSE IF ~s.user.isAuthenticated THEN "login"
  ELSE "dashboard"

\* the page App renders for a snapshot and a stored page identifier
visiblePageOf(s, page) ==
  IF ~s.user.isAuthenticated THEN "login"
  ELSE IF page \in pages THEN page
  ELSE "dashboard"

visiblePage == visiblePageOf(state, currentPage)

\* faulty variant: a mounted page starts from the empty checklist, not from the
\* store's
useActivity_startsBlank(local, s, page) ==
  IF visiblePageOf(s, page) # "activity" THEN undefined
  ELSE IF local = undefined THEN initialState(0).todayActivity
  ELSE local

\* the cell of ActivityPage's useState(state.todayActivity) after a render of
\* snapshot s and page identifier page: made from the store when the page is
\* mounted, kept while it stays mounted, gone once another page is rendered
useActivity(local, s, page) ==
  IF visiblePageOf(s, page) # "activity" THEN undefined
  ELSE IF local = undefined THEN s.todayActivity
  ELSE local

----------------------------------------------------------------------------
(* AppProvider *)

Init ==
  /\ \E t \in Instants : state = initialState(getDay(t))
  /\ currentPage = "login"
  /\ activity = undefined
  /\ trace = <<>>

\* faulty variant: the username given is not stored
loginUpdater_keepsUsername(prev, username, password) ==
  Merge(prev, [user |-> Merge(prev.user, [isAuthenticated |-> TRUE])])

\* the updater login hands to setState
loginUpdater(prev, username, password) ==
  Merge(prev, [user |-> Merge(prev.user, [username |-> username, isAuthenticated |-> TRUE])])

\* the page login hands to setCurrentPage
loginPage == "dashboard"

login ==
  \E username \in Usernames, password \in Passwords :
    /\ Len(trace) < MaxSteps
    /\ state' = loginUpdater(state, username, password)
    /\ currentPage' = loginPage
    /\ trace' = Append(trace, [op |-> "login", username |-> username,
                               password |-> password])
    /\ activity' = useActivity(activity, state', currentPage')

\* faulty variant: the flag is left as it is, only the page changes
logoutUpdater_keepsSession(prev) == prev

\* faulty variant: logout puts the record back to what the program started with
logoutUpdater_clearsData(prev) == initialState(prev.selectedDay)

\* faulty variant: the flag is flipped instead of cleared
logoutUpdater_toggles(prev) ==
  Merge(prev, [user |-> Merge(prev.user,
                              [isAuthenticated |-> ~prev.user.isAuthenticated])])

\* the updater logout hands to setState
logoutUpdater(prev) ==
  Merge(prev, [user |-> Merge(prev.user, [isAuthenticated |-> FALSE])])

\* faulty variant: logout leaves the page identifier on the dashboard
logoutPage_dashboard == "dashboard"

\* the page logout hands to setCurrentPage
logoutPage == "login"

logout ==
  /\ Len(trace) < MaxSteps
  /\ state' = logoutUpdater(state)
  /\ currentPage' = logoutPage
  /\ trace' = Append(trace, [op |-> "logout"])
  /\ activity' = useActivity(activity, state', currentPage')

\* faulty variant: the spread order is reversed, so the old fields win
updateSettingsUpdater_oldWins(prev, updates) ==
  Merge(prev, [user |-> Merge(updates, prev.user)])

\* the updater updateSettings hands to setState
updateSettingsUpdater(prev, updates) ==
  Merge(prev, [user |-> Merge(prev.user, updates)])

updateSettings ==
  \E updates \in SettingsUpdates :
    /\ Len(trace) < MaxSteps
    /\ state' = updateSettingsUpdater(state, updates)
    /\ trace' = Append(trace, [op |-> "updateSettings", updates |-> updates])
    /\ UNCHANGED currentPage
    /\ activity' = useActivity(activity, state', currentPage')

\* faulty variant: the stored date is carried over
updateTestResultUpdater_keepsDate(prev, fastingSugar, postMealSugar, t) ==
  Merge(prev, [lastTestResult |-> [ fastingSugar  |-> fastingSugar,
                                    postMealSugar |-> postMealSugar,
                                    date          |-> prev.lastTestResult.date ]])

\* the updater updateTestResult hands to setState, run at instant t
updateTestResultUpdater(prev, fastingSugar, postMealSugar, t) ==
  Merge(prev, [lastTestResult |-> [ fastingSugar  |-> fastingSugar,
                                    postMealSugar |-> postMealSugar,
                                    date          |-> ISODate(t) ]])

updateTestResult ==
  \E fastingSugar \in FastingValues, postMealSugar \in PostMealValues, t \in Instants :
    /\ Len(trace) < MaxSteps
    /\ state' = updateTestResultUpdater(state, fastingSugar, postMealSugar, t)
    /\ trace' = Append(trace, [op |-> "updateTestResult", fastingSugar |-> fastingSugar,
                               postMealSugar |-> postMealSugar, at |-> t])
    /\ UNCHANGED currentPage
    /\ activity' = useActivity(activity, state', currentPage')

\* { ...prev.todayActivity[time] }: a missing slot spreads to nothing
slotOf(todayActivity, time) ==
  IF time \in DOMAIN todayActivity THEN todayActivity[time] ELSE <<>>

\* faulty variant: the slot's other flags are not spread into the new slot
updateTodayActivityUpdater_dropsFlags(prev, time, type, value) ==
  Merge(prev,
        [todayActivity |-> Merge(prev.todayActivity, (time :> (type :> value)))])

\* the updater updateTodayActivity hands to setState
updateTodayActivityUpdater(prev, time, type, value) ==
  Merge(prev,
        [todayActivity |->
           Merge(prev.todayActivity,
                 (time :> Merge(slotOf(prev.todayActivity, time), (type :> value))))])

updateTodayActivity ==
  \E time \in TimeSlots, type \in FlagNames, value \in BOOLEAN :
    /\ Len(trace) < MaxSteps
    /\ state' = updateTodayActivityUpdater(state, time, type, value)
    /\ trace' = Append(trace, [op |-> "updateTodayActivity", time |-> time,
                               type |-> type, value |-> value])
    /\ UNCHANGED currentPage
    /\ activity' = useActivity(activity, state', currentPage')

\* faulty variant: the plan is spread over the old plan, count by count, and a
\* count of 0 (falsy) keeps the old count
updateMedicationPlanUpdater_keepsOnZero(prev, plan) ==
  Merge(prev, [medicationPlan |->
                 [k \in DOMAIN plan |->
                    IF plan[k] = 0 /\ k \in DOMAIN prev.medicationPlan
                      THEN prev.medicationPlan[k] ELSE plan[k]]])

\* faulty variant: the plan is stored under the weekly diet plan's key
updateMedicationPlanUpdater_intoDietPlan(prev, plan) ==
  Merge(prev, [dietPlan |-> plan])

\* the updater updateMedicationPlan hands to setState
updateMedicationPlanUpdater(prev, plan) ==
  Merge(prev, [medicationPlan |-> plan])

updateMedicationPlan ==
  \E plan \in MedicationPlans :
    /\ Len(trace) < MaxSteps
    /\ state' = updateMedicationPlanUpdater(state, plan)
    /\ trace' = Append(trace, [op |-> "updateMedicationPlan", plan |-> plan])
    /\ UNCHANGED currentPage
    /\ activity' = useActivity(activity, state', currentPage')

\* the updater selectDay hands to setState
selectDayUpdater(prev, dayIndex) ==
  Merge(prev, [selectedDay |-> dayIndex])

selectDay ==
  \E dayIndex \in DayIndices :
    /\ Len(trace) < MaxSteps
    /\ state' = selectDayUpdater(state, dayIndex)
    /\ trace' = Append(trace, [op |-> "selectDay", dayIndex |-> dayIndex])
    /\ UNCHANGED currentPage
    /\ activity' = useActivity(activity, state', currentPage')

\* the useState setter of currentPage, handed out as it is
setCurrentPage ==
  \E page \in PageIdentifiers :
    /\ Len(trace) < MaxSteps
    /\ currentPage' = page
    /\ trace' = Append(trace, [op |-> "setCurrentPage", page |-> page])
    /\ UNCHANGED state
    /\ activity' = useActivity(activity, state', currentPage')

----------------------------------------------------------------------------
(* LoginPage *)

\* faulty variant: only the username is looked at
credentialsGiven_usernameOnly(username, password) == username # ""

\* username && password: the empty string is falsy
credentialsGiven(username, password) == username # "" /\ password # ""

\* the handler, in a behaviour of at most budget steps
LoginPage_handleSubmitWithin(budget) ==
  \E username \in Usernames, password \in Passwords :
    /\ Len(trace) < budget
    /\ visiblePage = "login"
    /\ IF credentialsGiven(username, password)
         THEN /\ state' = loginUpdater(state, username, password)
              /\ currentPage' = loginPage
         ELSE UNCHANGED <<state, currentPage>>
    /\ trace' = Append(trace, [op |-> "LoginPage.handleSubmit", username |-> username,
                               password |-> password])
    /\ activity' = useActivity(activity, state', currentPage')

LoginPage_handleSubmit == LoginPage_handleSubmitWithin(MaxSteps)

----------------------------------------------------------------------------
(* DietPlanPage *)

\* faulty variant: the week starts on Monday
dayKeys_mondayFirst ==
  <<"monday", "tuesday", "wednesday", "thursday", "friday", "saturday", "sunday">>

dayKeys == <<"sunday", "monday", "tuesday", "wednesday", "thursday", "friday", "saturday">>

\* state.dietPlan[dayKeys[state.selectedDay]]
selectedPlanOf(s) ==
  IF HasIndex(dayKeys, s.selectedDay)
    THEN Get(s.dietPlan, At(dayKeys, s.selectedDay))
    ELSE undefined   \* dietPlan[undefined]: no such key

selectedPlan == selectedPlanOf(state)

----------------------------------------------------------------------------
(* DashboardPage: the status of the last test result *)

\* faulty variant: a reading equal to a limit falls in the lower class
getTestStatus_inclusive(value, type) ==
  IF type = "fasting"
    THEN IF value # NaN /\ value <= 100 THEN "neutral"
         ELSE IF value # NaN /\ value <= 126 THEN "warning"
         ELSE "critical"
    ELSE IF value # NaN /\ value <= 140 THEN "neutral"
         ELSE IF value # NaN /\ value <= 200 THEN "warning"
         ELSE "critical"

getTestStatus(value, type) ==
  IF type = "fasting"
    THEN IF LessThan(value, 100) THEN "neutral"
         ELSE IF LessThan(value, 126) THEN "warning"
         ELSE "critical"
    ELSE IF LessThan(value, 140) THEN "neutral"
         ELSE IF LessThan(value, 200) THEN "warning"
         ELSE "critical"

fastingStatus == getTestStatus(state.lastTestResult.fastingSugar, "fasting")
postMealStatus == getTestStatus(state.lastTestResult.postMealSugar, "postmeal")

\* readings on each side of the four class limits, and NaN
ReadingsAtLimits == {99, 100, 101, 125, 126, 127, 139, 140, 141, 199, 200, 201, NaN}

\* updateTestResult, called once with readings at the class limits
updateTestResultAtLimits ==
  \E fastingSugar \in ReadingsAtLimits, postMealSugar \in ReadingsAtLimits,
     t \in Instants :
    /\ trace = <<>>
    /\ state' = updateTestResultUpdater(state, fastingSugar, postMealSugar, t)
    /\ trace' = Append(trace, [op |-> "updateTestResult", fastingSugar |-> fastingSugar,
                               postMealSugar |-> postMealSugar, at |-> t])
    /\ UNCHANGED currentPage
    /\ activity' = useActivity(activity, state', currentPage')

----------------------------------------------------------------------------
(* Layout and DashboardPage: the buttons that change the page *)

\* the sidebar's Dashboard and Settings buttons, on every page but the login page
Layout_setCurrentPage ==
  \E page \in {"dashboard", "settings"} :
    /\ Len(trace) < MaxClicks
    /\ visiblePage # "login"
    /\ currentPage' = page
    /\ trace' = Append(trace, [op |-> "setCurrentPage", page |-> page])
    /\ UNCHANGED state
    /\ activity' = useActivity(activity, state', currentPage')

\* the sidebar's Logout button: onClick={logout}
Layout_logout ==
  /\ Len(trace) < MaxClicks
  /\ visiblePage # "login"
  /\ state' = logoutUpdater(state)
  /\ currentPage' = logoutPage
  /\ trace' = Append(trace, [op |-> "logout"])
  /\ activity' = useActivity(activity, state', currentPage')

\* the dashboard's four buttons
DashboardPage_setCurrentPage ==
  \E page \in {"diet-plan", "activity", "test-upload", "medication"} :
    /\ Len(trace) < MaxClicks
    /\ visiblePage = "dashboard"
    /\ currentPage' = page
    /\ trace' = Append(trace, [op |-> "setCurrentPage", page |-> page])
    /\ UNCHANGED state
    /\ activity' = useActivity(activity, state', currentPage')

\* Cancel (settings, test upload, medication) and Back to Dashboard (activity,
\* diet plan)
Page_backToDashboard ==
  /\ Len(trace) < MaxClicks
  /\ visiblePage \in {"settings", "activity", "diet-plan", "test-upload", "medication"}
  /\ currentPage' = "dashboard"
  /\ trace' = Append(trace, [op |-> "setCurrentPage", page |-> "dashboard"])
  /\ UNCHANGED state
  /\ activity' = useActivity(activity, state', currentPage')

----------------------------------------------------------------------------
(* SettingsPage *)

\* The fields of a form are useState cells made from the store when its page is
\* mounted.  No handler changes the store while a form page stays mounted, so a
\* field the user left alone holds the store's present value.

\* text typed into the Age field
TypedAges == {<<"3", "0">>, <<>>}

SettingsPage_handleSave ==
  \E username  \in {state.user.username, "carol"},
     age       \in {String(state.user.age)} \cup TypedAges,
     condition \in {state.user.condition, "diabetes"},
     region    \in {state.user.region, "India"} :
    /\ Len(trace) < MaxClicks
    /\ visiblePage = "settings"
    /\ state' = updateSettingsUpdater(state, [ username  |-> username,
                                               age       |-> parseInt(age),
                                               condition |-> condition,
                                               region    |-> region ])
    /\ currentPage' = "dashboard"
    /\ trace' = Append(trace, [op |-> "SettingsPage.handleSave", username |-> username,
                               age |-> age, condition |-> condition, region |-> region])
    /\ activity' = useActivity(activity, state', currentPage')

----------------------------------------------------------------------------
(* ActivityPage *)

\* faulty variant: the exercise checkbox is drawn for every slot
hasCheckbox_exerciseEverywhere(time, type) == type \in {"food", "medicine", "exercise"}

\* the checkboxes the page draws: food and medicine for each slot, exercise for
\* the slot 'day' only
hasCheckbox(time, type) ==
  \/ type \in {"food", "medicine"}
  \/ type = "exercise" /\ time = "day"

\* !slot[type]: a missing flag is undefined, and !undefined is true
Negated(slot, type) == IF type \in DOMAIN slot THEN ~slot[type] ELSE TRUE

ActivityPage_handleToggle ==
  \E time \in TimeSlots, type \in FlagNames :
    LET newValue == Negated(activity[time], type) IN
    /\ Len(trace) < MaxClicks
    /\ visiblePage = "activity"
    /\ hasCheckbox(time, type)
    /\ activity' = Merge(activity, (time :> Merge(activity[time], (type :> newValue))))
    /\ state' = updateTodayActivityUpdater(state, time, type, newValue)
    /\ trace' = Append(trace, [op |-> "ActivityPage.handleToggle", time |-> time,
                               type |-> type])
    /\ UNCHANGED currentPage

----------------------------------------------------------------------------
(* DietPlanPage: the seven day buttons *)

DietPlanPage_selectDay ==
  \E index \in 0..(Len(dayKeys) - 1) :
    /\ Len(trace) < MaxClicks
    /\ visiblePage = "diet-plan"
    /\ state' = selectDayUpdater(state, index)
    /\ trace' = Append(trace, [op |-> "selectDay", dayIndex |-> index])
    /\ UNCHANGED currentPage
    /\ activity' = useActivity(activity, state', currentPage')

----------------------------------------------------------------------------
(* TestUploadPage *)

\* text typed into a sugar field
TypedReadings == {<<"1", "1", "0">>, <<>>}

TestUploadPage_handleSubmit ==
  \E fastingSugar  \in {String(state.lastTestResult.fastingSugar)} \cup TypedReadings,
     postMealSugar \in {String(state.lastTestResult.postMealSugar)} \cup TypedReadings,
     t \in Instants :
    /\ Len(trace) < MaxClicks
    /\ visiblePage = "test-upload"
    /\ state' = updateTestResultUpdater(state, parseFloat(fastingSugar),
                                        parseFloat(postMealSugar), t)
    /\ currentPage' = "dashboard"
    /\ trace' = Append(trace, [op |-> "TestUploadPage.handleSubmit",
                               fastingSugar |-> fastingSugar,
                               postMealSugar |-> postMealSugar, at |-> t])
    /\ activity' = useActivity(activity, state', currentPage')

----------------------------------------------------------------------------
(* MedicationPlanPage *)

\* text typed into a tablet-count field
TypedCounts == {<<"2">>, <<"-", "3">>, <<>>}

\* the form as the user may leave it: every field as the store has it, or one
\* of the three fields typed over
MedicationForms(stored) ==
  LET shown == [k \in DOMAIN stored |-> String(stored[k])]
  IN  {shown} \cup { Merge(shown, (k :> text)) : k \in DOMAIN stored, text \in TypedCounts }

MedicationPlanPage_handleSubmit ==
  \E plan \in MedicationForms(state.medicationPlan) :
    /\ Len(trace) < MaxClicks
    /\ visiblePage = "medication"
    /\ state' = updateMedicationPlanUpdater(state, [ day       |-> parseInt(plan.day),
                                                     afternoon |-> parseInt(plan.afternoon),
                                                     night     |-> parseInt(plan.night) ])
    /\ currentPage' = "dashboard"
    /\ trace' = Append(trace, [op |-> "MedicationPlanPage.handleSubmit", plan |-> plan])
    /\ activity' = useActivity(activity, state', currentPage')

----------------------------------------------------------------------------

Next ==
  \/ login
  \/ logout
  \/ updateSettings
  \/ updateTestResult
  \/ updateTodayActivity
  \/ updateMedicationPlan
  \/ selectDay
  \/ setCurrentPage
  \/ LoginPage_handleSubmit

Spec == Init /\ [][Next]_vars

\* the program driven through its user interface alone: the handlers of the
\* page on screen
LoginPage_handleSubmitClicked == LoginPage_handleSubmitWithin(MaxClicks)

NextClick ==
  \/ LoginPage_handleSubmitClicked
  \/ Layout_setCurrentPage
  \/ Layout_logout
  \/ DashboardPage_setCurrentPage
  \/ Page_backToDashboard
  \/ SettingsPage_handleSave
  \/ ActivityPage_handleToggle
  \/ DietPlanPage_selectDay
  \/ TestUploadPage_handleSubmit
  \/ MedicationPlanPage_handleSubmit

SpecUI == Init /\ [][NextClick]_vars

\* one test result stored, with readings at the dashboard's class limits
SpecAtLimits == Init /\ [][updateTestResultAtLimits]_vars
----------------------------------------------------------------------------
(* History read by the properties below *)

\* the entry point that ran last, and whether it was op
last == trace[Len(trace)]
ran(op) == Len(trace) > 0 /\ last.op = op

\* the entry e called the store's login; it did so with both credentials non-empty
calledLogin(e) ==
  \/ e.op = "login"
  \/ e.op = "LoginPage.handleSubmit" /\ e.username # "" /\ e.password # ""
calledLoginNonEmpty(e) == calledLogin(e) /\ e.username # "" /\ e.password # ""

\* the index of the last logout of the trace, 0 if there is none
lastLogout ==
  LET S == {i \in 1..Len(trace) : trace[i].op = "logout"}
  IN  IF S = {} THEN 0 ELSE CHOOSE i \in S : \A j \in S : j <= i

----------------------------------------------------------------------------
(* C1 *)

\* C1: after login(u, p) with u and p non-empty, from any state, isAuthenticated
\* is true, user.username is u as supplied, and the stored page is 'dashboard'.
C1_LoginSetsSession ==
  (ran("login") /\ last.username # "" /\ last.password # "")
    => /\ state.user.isAuthenticated = TRUE
       /\ state.user.username = last.username
       /\ currentPage = "dashboard"

\* a login as alice that follows an update of the profile's username
C1_Witness ==
  /\ Len(trace) = 2
  /\ trace[1].op = "updateSettings" /\ "username" \in DOMAIN trace[1].updates
  /\ ran("login") /\ last.username = "alice" /\ last.password = "x"
  /\ state.user.username = "alice" /\ state.user.isAuthenticated

----------------------------------------------------------------------------
(* C2 *)

\* C2 as stated: the store operation login, called with an empty username or an
\* empty password, changes neither isAuthenticated nor user.username nor the
\* stored page.
C2_StoreLoginRejectsEmpty ==
  [][ (ran("login")' /\ (last'.username = "" \/ last'.password = ""))
        => /\ state'.user.isAuthenticated = state.user.isAuthenticated
           /\ state'.user.username = state.user.username
           /\ currentPage' = currentPage ]_vars

\* C2, amended: submitting the login form (LoginPage.handleSubmit) with an empty
\* username or an empty password changes neither the record nor the stored page;
\* the store operation login checks nothing and opens the session whatever its
\* arguments are.
C2_OnlyFormRejectsEmpty ==
  /\ [][ (ran("LoginPage.handleSubmit")' /\ (last'.username = "" \/ last'.password = ""))
           => /\ state' = state
              /\ currentPage' = currentPage ]_vars
  /\ [](ran("login")
          => /\ state.user.isAuthenticated = TRUE
             /\ state.user.username = last.username
             /\ currentPage = "dashboard")

\* the form was submitted with a username and no password, and nobody is logged in
C2_Witness ==
  /\ ran("LoginPage.handleSubmit") /\ last.username = "alice" /\ last.password = ""
  /\ ~state.user.isAuthenticated
  /\ currentPage = "login"

----------------------------------------------------------------------------
(* C3 *)

\* isAuthenticated changes only in a step that calls login (to true) or in a
\* logout (to false)
OnlyLoginAndLogoutSetAuth ==
  /\ (state'.user.isAuthenticated /\ ~state.user.isAuthenticated) => calledLogin(last')
  /\ (~state'.user.isAuthenticated /\ state.user.isAuthenticated) => ran("logout")'

----------------------------------------------------------------------------
(* C4 *)

\* C4: after logout isAuthenticated is false and the stored page is 'login', and
\* a second logout changes nothing: the record and the page after two logouts in
\* a row are those after one.
C4_LogoutIdempotent ==
  /\ [](ran("logout")
          => /\ state.user.isAuthenticated = FALSE
             /\ currentPage = "login"
             /\ logoutUpdater(state) = state
             /\ logoutPage = currentPage)
  /\ [][ (ran("logout") /\ ran("logout")')
           => (state' = state /\ currentPage' = currentPage) ]_vars

\* a logout that closed a session opened with both credentials
C4_Witness ==
  /\ Len(trace) = 2
  /\ trace[1].op = "login" /\ trace[1].username = "alice" /\ trace[1].password = "x"
  /\ ran("logout")
  /\ ~state.user.isAuthenticated /\ state.user.username = "alice"

----------------------------------------------------------------------------
(* C5 *)

\* C5: with isAuthenticated false the login page is shown whatever the stored
\* identifier; otherwise the page of the stored identifier is shown when it is
\* one of the six pages, and the dashboard for any other identifier.
C5_VisiblePageRule ==
  LET six == {"dashboard", "settings", "activity", "diet-plan", "test-upload",
              "medication"}
  IN  /\ ~state.user.isAuthenticated => visiblePage = "login"
      /\ (state.user.isAuthenticated /\ currentPage \in six) => visiblePage = currentPage
      /\ (state.user.isAuthenticated /\ currentPage \notin six) => visiblePage = "dashboard"

\* logged in with the stored identifier 'login': the dashboard is shown
C5_Witness ==
  /\ state.user.isAuthenticated
  /\ currentPage = "login"
  /\ visiblePage = "dashboard"

----------------------------------------------------------------------------
(* C6 *)

\* the fields of the user profile
ProfileKeys == {"username", "age", "condition", "region", "isAuthenticated"}

\* one updateSettings call: the fields given take the values given, the others stay
UpdateSettingsMerges ==
  ran("updateSettings")'
    => LET u == last'.updates
       IN  /\ DOMAIN state'.user = ProfileKeys
           /\ \A k \in DOMAIN u : state'.user[k] = u[k]
           /\ \A k \in ProfileKeys \ DOMAIN u : state'.user[k] = state.user[k]

\* a run of updateSettings calls from the start: each field holds the value of
\* the last call that gave it, or its first value if no call gave it
UpdateSettingsLastWins ==
  (\A i \in 1..Len(trace) : trace[i].op = "updateSettings")
    => \A k \in ProfileKeys :
         LET S == {i \in 1..Len(trace) : k \in DOMAIN trace[i].updates}
         IN  IF S = {} THEN state.user[k] = initialState(0).user[k]
             ELSE state.user[k] = trace[CHOOSE i \in S : \A j \in S : j <= i].updates[k]

\* C6: after any sequence of updateSettings calls the profile holds, for each
\* field, the value the most recent call that included it supplied, and the value
\* from before the sequence for every field no call included.
C6_SettingsMerge ==
  /\ []UpdateSettingsLastWins
  /\ [][UpdateSettingsMerges]_vars

\* two calls gave the age, the second one alone; the region comes from the first
C6_Witness ==
  /\ Len(trace) = 2
  /\ trace[1].op = "updateSettings" /\ trace[2].op = "updateSettings"
  /\ DOMAIN trace[1].updates = {"age", "region"} /\ trace[1].updates.age = 30
  /\ DOMAIN trace[2].updates = {"age"} /\ trace[2].updates.age = 61
  /\ state.user.age = 61 /\ state.user.region = "India"
  /\ state.user.username = "john.doe"

----------------------------------------------------------------------------
(* C7 *)

\* the flags a slot of the activity log has
FlagsOf(slot) == DOMAIN initialState(0).todayActivity[slot]

\* C7: updateTodayActivity(s, f, v), f a flag of slot s, sets todayActivity[s][f]
\* to v and changes no other flag of any slot, no other part of the record, and
\* not the stored page.
C7_ActivityFrame ==
  [][ (ran("updateTodayActivity")' /\ last'.type \in FlagsOf(last'.time))
        => LET t == last'.time
               f == last'.type
           IN  /\ state'.todayActivity[t][f] = last'.value
               /\ DOMAIN state'.todayActivity = DOMAIN state.todayActivity
               /\ \A s \in DOMAIN state.todayActivity :
                    /\ DOMAIN state'.todayActivity[s] = DOMAIN state.todayActivity[s]
                    /\ \A g \in DOMAIN state.todayActivity[s] :
                         (s # t \/ g # f)
                           => state'.todayActivity[s][g] = state.todayActivity[s][g]
               /\ DOMAIN state' = DOMAIN state
               /\ \A k \in DOMAIN state \ {"todayActivity"} : state'[k] = state[k]
               /\ currentPage' = currentPage ]_vars

\* the afternoon medicine was ticked after the day's food had been
C7_Witness ==
  /\ Len(trace) = 2
  /\ trace[1] = [op |-> "updateTodayActivity", time |-> "day", type |-> "food",
                 value |-> TRUE]
  /\ trace[2] = [op |-> "updateTodayActivity", time |-> "afternoon",
                 type |-> "medicine", value |-> TRUE]
  /\ state.todayActivity.afternoon.medicine /\ state.todayActivity.day.food
  /\ ~state.todayActivity.afternoon.food

----------------------------------------------------------------------------
(* C8 *)

\* C8: after updateTestResult(f, p) the lab result is exactly f, p and the UTC
\* calendar date of the instant of the call; nothing of the old result is left.
C8_TestResultReplaced ==
  ran("updateTestResult")
    => /\ DOMAIN state.lastTestResult = {"fastingSugar", "postMealSugar", "date"}
       /\ state.lastTestResult.fastingSugar = last.fastingSugar
       /\ state.lastTestResult.postMealSugar = last.postMealSugar
       /\ LET d == state.lastTestResult.date - InitialDate
          IN  d * TicksPerDay <= last.at /\ last.at < (d + 1) * TicksPerDay

\* a second result, submitted on a later day than the first
C8_Witness ==
  /\ Len(trace) = 2
  /\ trace[1].op = "updateTestResult" /\ trace[1].at = 0 /\ trace[1].fastingSugar = 95
  /\ ran("updateTestResult") /\ last.at = MaxNow /\ last.fastingSugar = 110
  /\ state.lastTestResult.date # InitialDate
  /\ state.lastTestResult.fastingSugar = 110

----------------------------------------------------------------------------
(* C9 *)

\* C9: updateMedicationPlan(plan) leaves medicationPlan equal to plan, and the
\* user, the lab result, the selected day, the diet plan, the activity log and
\* the stored page as they were.
C9_MedicationPlanReplaced ==
  [][ ran("updateMedicationPlan")'
        => /\ state'.medicationPlan = last'.plan
           /\ DOMAIN state' = DOMAIN state
           /\ \A k \in DOMAIN state \ {"medicationPlan"} : state'[k] = state[k]
           /\ currentPage' = currentPage ]_vars

\* a plan replaced the plan an earlier call had stored
C9_Witness ==
  /\ Len(trace) = 2
  /\ trace[1].op = "updateMedicationPlan"
  /\ trace[1].plan = [day |-> 2, afternoon |-> 1, night |-> 0]
  /\ ran("updateMedicationPlan")
  /\ state.medicationPlan = [day |-> 0, afternoon |-> 0, night |-> 3]

----------------------------------------------------------------------------
(* C10 *)

\* the weekdays, counted from Sunday as 0
weekdayFromSunday ==
  [i \in 0..6 |-> CASE i = 0 -> "sunday"    [] i = 1 -> "monday"
                    [] i = 2 -> "tuesday"   [] i = 3 -> "wednesday"
                    [] i = 4 -> "thursday"  [] i = 5 -> "friday"
                    [] i = 6 -> "saturday"]

\* C10: after selectDay(i), i in 0..6, the entry the diet-plan page reads is the
\* weekly plan's entry of weekday i counted from Sunday as 0 (Wednesday for 3), a
\* record with the fields day, afternoon, night and lifestyle.
C10_SelectedPlanIsWeekday ==
  (ran("selectDay") /\ last.dayIndex \in 0..6)
    => /\ selectedPlan = state.dietPlan[weekdayFromSunday[last.dayIndex]]
       /\ selectedPlan # undefined
       /\ DOMAIN selectedPlan = {"day", "afternoon", "night", "lifestyle"}
       /\ last.dayIndex = 3 => selectedPlan.day = "Greek yogurt with berries"

\* Wednesday was selected
C10_Witness ==
  /\ ran("selectDay") /\ last.dayIndex = 3
  /\ state.selectedDay = 3
  /\ selectedPlan.lifestyle = "Engage in light exercise"

----------------------------------------------------------------------------
(* C11 *)

\* C11: a selectDay whose index is outside 0..6 leaves selectedDay as it was, and
\* in every reachable state the diet-plan page's lookup of the selected day finds
\* an entry of the weekly plan.
C11_OutOfRangeRejected ==
  /\ [][(ran("selectDay")' /\ last'.dayIndex \notin 0..6)
         => state'.selectedDay = state.selectedDay]_vars
  /\ [](selectedPlan # undefined)

----------------------------------------------------------------------------
(* C12 *)

\* C12: in every reachable state the weekly diet plan is the one the program
\* started with.
C12_DietPlanNeverMutated == state.dietPlan = dietPlan0

\* two operations ran, the last of them stored a medication plan
C12_Witness ==
  /\ Len(trace) = 2
  /\ trace[1].op = "selectDay"
  /\ ran("updateMedicationPlan")
  /\ state.dietPlan.wednesday.night = "Baked salmon with quinoa"

----------------------------------------------------------------------------
(* C13 *)

\* C13: in every state reached through the medication form, each of the three
\* counts of the medication plan is a non-negative integer, whatever text was
\* typed into the fields.
C13_CountsNonNegative ==
  \A k \in DOMAIN state.medicationPlan :
    state.medicationPlan[k] # NaN /\ state.medicationPlan[k] >= 0

----------------------------------------------------------------------------
(* C14 *)

\* C14: in every state reached through the user interface the activity log has
\* exactly the slots day, afternoon and night; day has exactly the flags food,
\* medicine and exercise, afternoon and night exactly food and medicine; every
\* flag is a boolean.
C14_ActivityShape ==
  /\ DOMAIN state.todayActivity = {"day", "afternoon", "night"}
  /\ DOMAIN state.todayActivity.day = {"food", "medicine", "exercise"}
  /\ DOMAIN state.todayActivity.afternoon = {"food", "medicine"}
  /\ DOMAIN state.todayActivity.night = {"food", "medicine"}
  /\ \A time \in DOMAIN state.todayActivity :
       \A type \in DOMAIN state.todayActivity[time] :
         state.todayActivity[time][type] \in BOOLEAN

\* two checkboxes were ticked, the second the night slot's medicine
C14_Witness ==
  /\ Len(trace) >= 4
  /\ trace[Len(trace) - 1].op = "ActivityPage.handleToggle"
  /\ ran("ActivityPage.handleToggle") /\ last.time = "night" /\ last.type = "medicine"
  /\ state.todayActivity.night.medicine

----------------------------------------------------------------------------
(* C15 *)

\* C15: in every state reached through the user interface the stored page
\* identifier is 'login' exactly when isAuthenticated is false; the identifier is
\* then always the page on screen, and the dashboard is never shown for want of
\* an entry in the page table.
C15_PageIsLoginIffSignedOut ==
  /\ (currentPage = "login") <=> ~state.user.isAuthenticated
  /\ state.user.isAuthenticated => currentPage \in pages
  /\ visiblePage = currentPage

\* signed in, moved to a page, signed out
C15_Witness ==
  /\ Len(trace) >= 3
  /\ trace[Len(trace) - 1].op = "setCurrentPage"
  /\ ran("logout")
  /\ currentPage = "login"
  /\ ~state.user.isAuthenticated

----------------------------------------------------------------------------
(* C16 *)

\* C16: while the activity page is on screen its own copy of the checklist
\* equals the store's todayActivity, after every sequence of toggles and after
\* the page is left and opened again; each handleToggle negates the same flag in
\* the copy and in the store.
C16_LocalCopyInSync ==
  /\ [](visiblePage = "activity" => activity = state.todayActivity)
  /\ [][ran("ActivityPage.handleToggle")'
         => /\ activity'[last'.time][last'.type] = ~activity[last'.time][last'.type]
            /\ state'.todayActivity[last'.time][last'.type]
                 = ~state.todayActivity[last'.time][last'.type]]_vars

\* a checkbox was ticked, the page left and opened again
C16_Witness ==
  /\ Len(trace) = 5
  /\ trace[3].op = "ActivityPage.handleToggle" /\ trace[3].time = "day"
  /\ trace[3].type = "exercise"
  /\ trace[4].op = "setCurrentPage" /\ trace[4].page = "dashboard"
  /\ ran("setCurrentPage") /\ last.page = "activity"
  /\ visiblePage = "activity"
  /\ activity.day.exercise

----------------------------------------------------------------------------
(* C17 *)

\* what a session's end and start are to leave alone
KeptAcrossSessions(s) ==
  [ age            |-> s.user.age,
    condition      |-> s.user.condition,
    region         |-> s.user.region,
    lastTestResult |-> s.lastTestResult,
    selectedDay    |-> s.selectedDay,
    todayActivity  |-> s.todayActivity,
    medicationPlan |-> s.medicationPlan ]

\* C17: a logout and the login that follows it, under the same or another
\* username, change nothing but the authentication flag, the username and the
\* page: age, condition, region, lab result, selected day, activity checklist
\* and medication plan are after each of the two steps what they were before it,
\* hence after the login what they were before the logout.
C17_SessionKeepsData ==
  [][(ran("logout")' \/ ran("LoginPage.handleSubmit")')
       => KeptAcrossSessions(state') = KeptAcrossSessions(state)]_vars

\* a medication plan was saved, then bob signed in after a logout
C17_Witness ==
  /\ Len(trace) = 5
  /\ trace[3].op = "MedicationPlanPage.handleSubmit"
  /\ trace[4].op = "logout"
  /\ ran("LoginPage.handleSubmit") /\ last.username = "bob"
  /\ state.user.isAuthenticated /\ state.user.username = "bob"
  /\ state.medicationPlan.day = 2
  /\ currentPage = "dashboard"

----------------------------------------------------------------------------
(* C18 *)

\* the class of a reading, given the two limits of its kind
StatusClass(value, lower, upper) ==
  IF value # NaN /\ value < lower THEN "neutral"
  ELSE IF value # NaN /\ lower <= value /\ value < upper THEN "warning"
  ELSE "critical"

\* C18: the dashboard's two statuses are each one of neutral, warning, critical:
\* the fasting status is neutral below 100, warning from 100 to below 126 and
\* critical otherwise; the post-meal status is neutral below 140, warning from
\* 140 to below 200 and critical otherwise; a reading equal to 100, 126, 140 or
\* 200 is in the higher class; each status is a function of its own reading
\* alone, whatever the other reading is.
C18_StatusClasses ==
  LET fasting  == state.lastTestResult.fastingSugar
      postMeal == state.lastTestResult.postMealSugar
  IN  /\ fastingStatus = StatusClass(fasting, 100, 126)
      /\ postMealStatus = StatusClass(postMeal, 140, 200)
      /\ fasting = 100 => fastingStatus = "warning"
      /\ fasting = 126 => fastingStatus = "critical"
      /\ postMeal = 140 => postMealStatus = "warning"
      /\ postMeal = 200 => postMealStatus = "critical"

\* a result with both readings on a limit was stored
C18_Witness ==
  /\ ran("updateTestResult")
  /\ state.lastTestResult.fastingSugar = 100
  /\ state.lastTestResult.postMealSugar = 200
  /\ fastingStatus = "warning"
  /\ postMealStatus = "critical"

====
